---- MODULE Spec2Model ----
\* A model of librsync-rs (src/src/lib.rs): the Signature, Delta and Patch
\* streams, the JobDriver pump they delegate to, the random-access bridge
\* callback patch_copy_cb, and the life cycle of the native resources.
\*
\* The processing engine (librsync) and the modules job, macros and unstrait
\* are not part of src/src/lib.rs; they are modelled from the specification
\* (spec.md, sections 2, 4.1, 4.4 and 6).
EXTENDS Integers, Sequences, FiniteSets, TLC

\* ------------------------------------------------------------------ bounds
\* Longest base / new byte sequence.
MaxLen == 2
\* Largest destination buffer a consumer pulls with.
MaxDest == 2
\* Largest number of bytes a source delivers in one read.
MaxChunk == 2
\* Largest block length a signature is computed with.
MaxBlockLen == 2

\* The data alphabet.
Byte == {0, 1}

\* ------------------------------------------------------- engine constants
RS_DONE == 0
RS_BLOCKED == 1
RS_RUNNING == 2
RS_IO_ERROR == 100
RS_MEM_ERROR == 102
RS_INPUT_ENDED == 103
RS_BAD_MAGIC == 104
RS_UNIMPLEMENTED == 105
RS_CORRUPT == 106
RS_INTERNAL_ERROR == 107
RS_PARAM_ERROR == 108

RS_MD4_SIG_MAGIC == 1920139574
RS_BLAKE2_SIG_MAGIC == 1920139575
RS_DELTA_MAGIC == 1920139830

RS_OP_END == 0
RS_OP_LITERAL_1 == 1
RS_OP_COPY_N1_N1 == 69
RS_OP_RESERVED_85 == 85

\* ---------------------------------------------------------------- helpers
Min(a, b) == IF a < b THEN a ELSE b

Max(a, b) == IF a < b THEN b ELSE a

Take(s, n) == SubSeq(s, 1, Min(n, Len(s)))

Drop(s, n) == SubSeq(s, Min(n, Len(s)) + 1, Len(s))

Last(s) == s[Len(s)]

SeqsUpTo(S, n) == UNION {[1..k -> S] : k \in 0..n}

Prefixes(s) == {SubSeq(s, 1, k) : k \in 0..Len(s)}

RECURSIVE Fill(_, _)
Fill(b, n) == IF n <= 0 THEN <<>> ELSE <<b>> \o Fill(b, n - 1)

\* ------------------------------------------------------------------ errors
\* enum Error: Io(kind), Mem, BadMagic, Unimplemented, Internal, Unknown(n)
MkError(tag, kind, code) == [tag |-> tag, kind |-> kind, code |-> code]

NoError == MkError("None", "", 0)

io_err(kind) == MkError("Io", kind, 0)

\* ErrorFrom with the arms of RS_BLOCKED and RS_INPUT_ENDED exchanged.
ErrorFromSwapped(err) ==
    CASE err = RS_BLOCKED -> io_err("UnexpectedEof")
      [] err = RS_IO_ERROR -> io_err("Other")
      [] err = RS_MEM_ERROR -> MkError("Mem", "", 0)
      [] err = RS_INPUT_ENDED -> io_err("WouldBlock")
      [] err = RS_BAD_MAGIC -> MkError("BadMagic", "", 0)
      [] err = RS_UNIMPLEMENTED -> MkError("Unimplemented", "", 0)
      [] err = RS_CORRUPT -> io_err("InvalidData")
      [] err = RS_INTERNAL_ERROR -> MkError("Internal", "", 0)
      [] err = RS_PARAM_ERROR -> io_err("InvalidInput")
      [] OTHER -> MkError("Unknown", "", err)

\* ErrorFrom with a catch-all arm that loses the code.
ErrorFromCodeLost(err) ==
    CASE err = RS_BLOCKED -> io_err("WouldBlock")
      [] err = RS_IO_ERROR -> io_err("Other")
      [] err = RS_MEM_ERROR -> MkError("Mem", "", 0)
      [] err = RS_INPUT_ENDED -> io_err("UnexpectedEof")
      [] err = RS_BAD_MAGIC -> MkError("BadMagic", "", 0)
      [] err = RS_UNIMPLEMENTED -> MkError("Unimplemented", "", 0)
      [] err = RS_CORRUPT -> io_err("InvalidData")
      [] err = RS_INTERNAL_ERROR -> MkError("Internal", "", 0)
      [] err = RS_PARAM_ERROR -> io_err("InvalidInput")
      [] OTHER -> MkError("Unknown", "", 0)

\* impl From<raw::rs_result> for Error
ErrorFrom(err) ==
    CASE err = RS_BLOCKED -> io_err("WouldBlock")
      [] err = RS_IO_ERROR -> io_err("Other")
      [] err = RS_MEM_ERROR -> MkError("Mem", "", 0)
      [] err = RS_INPUT_ENDED -> io_err("UnexpectedEof")
      [] err = RS_BAD_MAGIC -> MkError("BadMagic", "", 0)
      [] err = RS_UNIMPLEMENTED -> MkError("Unimplemented", "", 0)
      [] err = RS_CORRUPT -> io_err("InvalidData")
      [] err = RS_INTERNAL_ERROR -> MkError("Internal", "", 0)
      [] err = RS_PARAM_ERROR -> io_err("InvalidInput")
      [] OTHER -> MkError("Unknown", "", err)

\* ------------------------------------------------- processing engine (external)
\* The engine is an external collaborator: an incremental job with one step
\* operation that consumes a prefix of the input view, produces a prefix of
\* the output space and returns Done, Blocked or an error code.  Stream
\* layouts are engine-defined; one unit of a stream stands for one field.

\* Rolling (weak) checksum of a block: collisions are possible.
WeakMod == 2

RECURSIVE SumSeq(_)
SumSeq(s) == IF s = <<>> THEN 0 ELSE s[1] + SumSeq(Tail(s))

WeakSum(block) == SumSeq(block) % WeakMod

\* Strong checksum of a block, idealised as collision free.
RECURSIVE StrongSum(_)
StrongSum(block) ==
    IF block = <<>> THEN 0 ELSE (block[1] + 1) + 3 * StrongSum(Tail(block))

\* rs_job_t
NewJob(kind, st) ==
    [kind |-> kind, st |-> st, tube |-> <<>>, final |-> RS_RUNNING,
     scoop |-> <<>>, magic |-> 0, blockLen |-> 0, strongLen |-> 0,
     weak |-> 0, copyPos |-> 0, copyLen |-> 0]

\* rs_signature_t
NullSumset ==
    [st |-> "null", blockLen |-> 0, strongLen |-> 0, sums |-> <<>>,
     indexed |-> FALSE]

\* Input available to a state function: the scooped bytes, then the view.
Avail(c) == c.job.scoop \o c.inp

\* Consume k units, scooped bytes first.
Consume(c, k) ==
    [c EXCEPT !.job.scoop = Drop(c.job.scoop, k),
              !.inp = Drop(c.inp, Max(0, k - Len(c.job.scoop)))]

\* Not enough input: scoop up whatever the view holds and wait for more.
ScoopAll(c) == [c EXCEPT !.job.scoop = Avail(c), !.inp = <<>>]

Emit(c, units) == [c EXCEPT !.job.tube = c.job.tube \o units]

Goto(c, st) == [c EXCEPT !.job.st = st]

Ret(c, res) == [c |-> c, res |-> res]

\* Input starvation: Blocked, or, once the input has ended, either
\* INPUT_ENDED or Blocked, as the engine build chooses (env.strict).
Starved(c, eof) ==
    IF eof /\ c.env.strict THEN Ret(ScoopAll(c), RS_INPUT_ENDED)
    ELSE Ret(ScoopAll(c), RS_BLOCKED)

\* begin_signature job: header, then one record per block.
SigStateFn(c, eof) ==
    LET j == c.job
        a == Avail(c)
    IN CASE j.st = "header" ->
              Ret(Goto(Emit(c, <<j.magic, j.blockLen, j.strongLen>>), "body"),
                  RS_RUNNING)
         [] j.st = "body" /\ Len(a) >= j.blockLen ->
              LET blk == Take(a, j.blockLen)
              IN Ret(Emit(Consume(c, j.blockLen),
                          <<WeakSum(blk), StrongSum(blk)>>), RS_RUNNING)
         [] j.st = "body" /\ Len(a) < j.blockLen /\ eof ->
              IF a = <<>> THEN Ret(Goto(c, "done"), RS_DONE)
              ELSE Ret(Goto(Emit(Consume(c, Len(a)),
                                 <<WeakSum(a), StrongSum(a)>>), "done"),
                       RS_DONE)
         [] OTHER -> Ret(ScoopAll(c), RS_BLOCKED)

\* begin_load_signature job: parses a signature stream into the sumset.
LoadsigStateFn(c, eof) ==
    LET j == c.job
        a == Avail(c)
        x == a[1]
        n == Consume(c, 1)
    IN IF a = <<>> THEN
            IF eof /\ j.st = "weak" THEN Ret(Goto(c, "done"), RS_DONE)
            ELSE Starved(c, eof)
       ELSE CASE j.st = "magic" ->
                   IF x \in {RS_MD4_SIG_MAGIC, RS_BLAKE2_SIG_MAGIC}
                   THEN Ret(Goto(n, "blocklen"), RS_RUNNING)
                   ELSE Ret(n, RS_BAD_MAGIC)
              [] j.st = "blocklen" ->
                   Ret(Goto([n EXCEPT !.env.sumset.blockLen = x], "stronglen"),
                       RS_RUNNING)
              [] j.st = "stronglen" ->
                   Ret(Goto([n EXCEPT !.env.sumset.strongLen = x], "weak"),
                       RS_RUNNING)
              [] j.st = "weak" ->
                   Ret(Goto([n EXCEPT !.job.weak = x], "strong"), RS_RUNNING)
              [] j.st = "strong" ->
                   Ret(Goto([n EXCEPT !.env.sumset.sums =
                                 Append(@, <<j.weak, x>>)], "weak"),
                       RS_RUNNING)
              [] OTHER -> Ret(c, RS_INTERNAL_ERROR)

\* Index (1-based) of the first block of the sumset matching blk, or 0.
Match(sumset, blk) ==
    LET hits == {i \in 1..Len(sumset.sums) :
                    sumset.sums[i] = <<WeakSum(blk), StrongSum(blk)>>}
    IN IF hits = {} THEN 0 ELSE CHOOSE i \in hits : \A k \in hits : i <= k

\* Emit one delta command for the candidate block blk at the scan position.
DeltaScan(c, blk) ==
    LET m == Match(c.env.sumset, blk)
    IN IF m > 0
       THEN Emit(Consume(c, Len(blk)),
                 <<RS_OP_COPY_N1_N1, (m - 1) * c.env.sumset.blockLen, Len(blk)>>)
       ELSE Emit(Consume(c, 1), <<RS_OP_LITERAL_1, blk[1]>>)

\* begin_delta job: reads the sumset it was created from on every step.
DeltaStateFn(c, eof) ==
    LET j == c.job
        a == Avail(c)
        bl == c.env.sumset.blockLen
    IN CASE c.env.sumset.st # "alive" ->
              Ret([c EXCEPT !.env.uaf = TRUE], RS_INTERNAL_ERROR)
         [] j.st = "header" ->
              Ret(Goto(Emit(c, <<RS_DELTA_MAGIC>>), "scan"), RS_RUNNING)
         [] j.st = "scan" /\ bl < 1 -> Ret(c, RS_PARAM_ERROR)
         [] j.st = "scan" /\ Len(a) >= bl ->
              Ret(DeltaScan(c, Take(a, bl)), RS_RUNNING)
         [] j.st = "scan" /\ Len(a) < bl /\ eof ->
              IF a = <<>> THEN Ret(Goto(Emit(c, <<RS_OP_END>>), "done"), RS_DONE)
              ELSE Ret(DeltaScan(c, a), RS_RUNNING)
         [] OTHER -> Ret(ScoopAll(c), RS_BLOCKED)

\* ------------------------------------------------- random-access bridge
\* The base source is any Read + Seek value: seek and read may fail, and a
\* read may deliver fewer bytes than asked for (at most base.chunk).
BaseSeek(base, pos) ==
    [ok |-> base.fail # "seek", base |-> [base EXCEPT !.pos = pos]]

BaseRead(base, len) ==
    LET n == Min(Min(len, base.chunk), Max(0, Len(base.data) - base.pos))
    IN [ok |-> base.fail # "read", n |-> n,
        bytes |-> SubSeq(base.data, base.pos + 1, base.pos + n),
        base |-> [base EXCEPT !.pos = base.pos + n]]

\* One record per invocation of the callback.
CbRecord(pos, len, seekOk, readCalled, n, res) ==
    [pos |-> pos, len |-> len, seekOk |-> seekOk, readCalled |-> readCalled,
     n |-> n, res |-> res]

Logged(env, rec) == [env EXCEPT !.cbs = Append(@, rec)]

\* patch_copy_cb with the result of the seek ignored.
patch_copy_cb_seek_ignored(env, pos, len, buf) ==
    LET sk == BaseSeek(env.base, pos)
        rd == BaseRead(sk.base, len)
    IN IF ~rd.ok
       THEN [res |-> RS_IO_ERROR, buf |-> buf,
             env |-> Logged([env EXCEPT !.base = sk.base],
                            CbRecord(pos, len, sk.ok, TRUE, 0, RS_IO_ERROR))]
       ELSE [res |-> RS_DONE, buf |-> rd.bytes \o Drop(buf, rd.n),
             env |-> Logged([env EXCEPT !.base = rd.base],
                            CbRecord(pos, len, sk.ok, TRUE, rd.n, RS_DONE))]

\* extern "C" fn patch_copy_cb(opaque, pos, len, buf): buf is the output
\* slice of len bytes handed over by the engine; *len is left unchanged.
\* try_or_rs_error! returns RS_IO_ERROR from the callback on Err.
patch_copy_cb(env, pos, len, buf) ==
    LET sk == BaseSeek(env.base, pos)
        rd == BaseRead(sk.base, len)
        live == env.ctx = "alive" /\ env.box = "alive" /\ env.stable
        e0 == [env EXCEPT !.uaf = @ \/ ~live]
    IN IF ~sk.ok
       THEN [res |-> RS_IO_ERROR, buf |-> buf,
             env |-> Logged(e0, CbRecord(pos, len, FALSE, FALSE, 0, RS_IO_ERROR))]
       ELSE IF ~rd.ok
       THEN [res |-> RS_IO_ERROR, buf |-> buf,
             env |-> Logged([e0 EXCEPT !.base = sk.base],
                            CbRecord(pos, len, TRUE, TRUE, 0, RS_IO_ERROR))]
       ELSE [res |-> RS_DONE, buf |-> rd.bytes \o Drop(buf, rd.n),
             env |-> Logged([e0 EXCEPT !.base = rd.base],
                            CbRecord(pos, len, TRUE, TRUE, rd.n, RS_DONE))]

\* begin_patch job: parses delta commands; a copy command calls the bridge
\* with the output space itself as buffer and trusts it to have filled len.
PatchStateFn(c, cap, eof) ==
    LET j == c.job
        a == Avail(c)
        x == a[1]
        n == Consume(c, 1)
        room == cap - Len(c.out)
        len == Min(j.copyLen, room)
        cb == patch_copy_cb(c.env, j.copyPos, len, Fill(c.env.fill, len))
        left == j.copyLen - len
    IN CASE j.st = "copying" ->
              IF room = 0 THEN Ret(c, RS_BLOCKED)
              ELSE IF cb.res # RS_DONE THEN Ret([c EXCEPT !.env = cb.env], cb.res)
              ELSE Ret([c EXCEPT !.env = cb.env,
                                 !.out = c.out \o cb.buf,
                                 !.job.copyPos = j.copyPos + len,
                                 !.job.copyLen = left,
                                 !.job.st = IF left = 0 THEN "cmd" ELSE "copying"],
                       RS_RUNNING)
         [] j.st = "copyargs" ->
              IF Len(a) < 2 THEN Starved(c, eof)
              ELSE Ret([Consume(c, 2) EXCEPT
                            !.job.copyPos = a[1], !.job.copyLen = a[2],
                            !.job.st = IF a[2] = 0 THEN "cmd" ELSE "copying"],
                       RS_RUNNING)
         [] a = <<>> -> Starved(c, eof)
         [] j.st = "magic" ->
              IF x = RS_DELTA_MAGIC THEN Ret(Goto(n, "cmd"), RS_RUNNING)
              ELSE Ret(n, RS_BAD_MAGIC)
         [] j.st = "cmd" ->
              CASE x = RS_OP_END -> Ret(Goto(n, "done"), RS_DONE)
                [] x = RS_OP_LITERAL_1 -> Ret(Goto(n, "literal"), RS_RUNNING)
                [] x = RS_OP_COPY_N1_N1 -> Ret(Goto(n, "copyargs"), RS_RUNNING)
                [] OTHER -> Ret(n, RS_CORRUPT)
         [] j.st = "literal" -> Ret(Goto(Emit(n, <<x>>), "cmd"), RS_RUNNING)
         [] OTHER -> Ret(c, RS_INTERNAL_ERROR)

\* The state function of a job.
StateFn(c, cap, eof) ==
    CASE c.job.kind = "sig" -> SigStateFn(c, eof)
      [] c.job.kind = "loadsig" -> LoadsigStateFn(c, eof)
      [] c.job.kind = "delta" -> DeltaStateFn(c, eof)
      [] OTHER -> PatchStateFn(c, cap, eof)

\* Move pending output from the tube into the output space.
TubeCatchup(c, cap) ==
    LET k == Min(Len(c.job.tube), cap - Len(c.out))
    IN [c EXCEPT !.out = c.out \o Take(c.job.tube, k),
                 !.job.tube = Drop(c.job.tube, k)]

\* rs_job_iter's loop: run the job until it blocks, completes or fails.
\* A job that has completed reports Done again and touches nothing; the
\* state of a job after an error is not defined by the engine's contract.
RECURSIVE JobWork(_, _, _)
JobAfter(r, cap, eof) ==
    IF r.res = RS_RUNNING THEN JobWork(r.c, cap, eof)
    ELSE IF r.res = RS_DONE
    THEN JobWork([r.c EXCEPT !.job.final = RS_DONE], cap, eof)
    ELSE r

JobRun(c, cap, eof) ==
    IF c.job.tube # <<>> THEN Ret(c, RS_BLOCKED)
    ELSE IF c.job.final # RS_RUNNING THEN Ret(c, c.job.final)
    ELSE JobAfter(StateFn(c, cap, eof), cap, eof)

JobWork(c, cap, eof) == JobRun(TubeCatchup(c, cap), cap, eof)

IterResult(r, avail_in) ==
    [job |-> r.c.job, consumed |-> avail_in - Len(r.c.inp), out |-> r.c.out,
     env |-> r.c.env, res |-> r.res]

\* One engine step on job with input view inp, cap bytes of output space
\* and the end-of-input flag: what was consumed and produced, and the status.
rs_job_iter(job, inp, cap, eof, env) ==
    IterResult(JobWork([job |-> job, inp |-> inp, out |-> <<>>, env |-> env],
                       cap, eof),
               Len(inp))

\* ---------------------------------------------------------------- JobDriver
\* A driver owns one job and one byte source.  The staging buffer is buf with
\* a cursor; src is what the source has not delivered yet.  Two records of
\* the past are kept with it: eaten, the input the engine has consumed, and
\* emitted, the output the engine has produced, both in step order; and
\* clobbered counts the unconsumed staged bytes that refills have overwritten.
\* limit is the number of engine steps the pull call under way may take
\* (0 between calls).
NewDriver(input, job) ==
    [job |-> job, src |-> input, buf |-> <<>>, cursor |-> 0,
     exhausted |-> FALSE, done |-> FALSE, failed |-> NoError,
     eaten |-> <<>>, emitted |-> <<>>, clobbered |-> 0, limit |-> 0]

NoDriver == NewDriver(<<>>, NewJob("none", "none"))

Unconsumed(d) == SubSeq(d.buf, d.cursor + 1, Len(d.buf))

\* Refill the staging from the source, which delivers at most chunk bytes;
\* zero bytes read marks the source as exhausted.
Refill(d, chunk) ==
    LET n == Min(chunk, Len(d.src))
    IN [d EXCEPT !.buf = Take(d.src, n), !.cursor = 0, !.src = Drop(d.src, n),
                 !.exhausted = (n = 0),
                 !.clobbered = @ + Len(Unconsumed(d))]

ReadOk(d, env, out, steps) ==
    [d |-> [d EXCEPT !.limit = 0], env |-> env, out |-> out, ok |-> TRUE,
     err |-> NoError, steps |-> steps,
     res |-> IF d.done THEN RS_DONE ELSE RS_BLOCKED]

ReadErr(d, env, err, steps, res) ==
    [d |-> [d EXCEPT !.failed = err, !.limit = 0], env |-> env, out |-> <<>>,
     ok |-> FALSE, err |-> err, steps |-> steps, res |-> res]

\* A pull call over a source of finitely many bytes needs one engine step
\* for what is staged, one for each byte the source has left, and one at the
\* end of the source.  A call that has taken them all and would step again
\* is a call that does not return: it is cut off as Runaway.
StepLimit(d) == Len(d.src) + 2

Runaway == MkError("Runaway", "", 0)

\* The pump of one pull call with cap bytes of destination: out is what
\* this call has produced so far.
RECURSIVE ReadLoop(_, _, _, _, _, _)
\* ReadDecide refilling on Blocked also when the source is exhausted.
ReadDecideNeverTruncated(d, out, r, cap, chunk, steps) ==
    IF r.res = RS_DONE THEN ReadOk([d EXCEPT !.done = TRUE], r.env, out, steps)
    ELSE IF r.res = RS_BLOCKED
    THEN IF out = <<>> THEN ReadLoop(d, out, cap, chunk, r.env, steps)
         ELSE ReadOk(d, r.env, out, steps)
    ELSE ReadErr(d, r.env, ErrorFrom(r.res), steps, r.res)

\* After the engine step: d is the driver with the cursor advanced.
ReadDecide(d, out, r, cap, chunk, steps) ==
    IF r.res = RS_DONE THEN ReadOk([d EXCEPT !.done = TRUE], r.env, out, steps)
    ELSE IF r.res = RS_BLOCKED
    THEN IF d.exhausted /\ out = <<>>
         THEN ReadErr(d, r.env, io_err("UnexpectedEof"), steps, r.res)
         ELSE IF out = <<>> THEN ReadLoop(d, out, cap, chunk, r.env, steps)
         ELSE ReadOk(d, r.env, out, steps)
    ELSE ReadErr(d, r.env, ErrorFrom(r.res), steps, r.res)

ReadAdvance(d, out, r, cap, chunk, steps) ==
    ReadDecide([d EXCEPT !.job = r.job, !.cursor = d.cursor + r.consumed,
                         !.eaten = @ \o Take(Unconsumed(d), r.consumed),
                         !.emitted = @ \o r.out],
               out \o r.out, [r EXCEPT !.env.steps = @ + 1], cap, chunk, steps + 1)

ReadStep(d, out, cap, chunk, env, steps) ==
    ReadAdvance(d, out,
                rs_job_iter(d.job, Unconsumed(d), cap - Len(out), d.exhausted, env),
                cap, chunk, steps)

\* The pump refilling the staging before every engine step.
ReadLoopAlwaysRefilling(d, out, cap, chunk, env, steps) ==
    IF d.done /\ Unconsumed(d) = <<>> THEN ReadOk(d, env, out, steps)
    ELSE IF steps >= d.limit THEN ReadErr(d, env, Runaway, steps, RS_RUNNING)
    ELSE ReadStep(Refill(d, chunk), out, cap, chunk, env, steps)

\* The pump stepping the engine whether or not the job is Done.
ReadLoopIgnoringDone(d, out, cap, chunk, env, steps) ==
    IF steps >= d.limit THEN ReadErr(d, env, Runaway, steps, RS_RUNNING)
    ELSE ReadStep(IF Unconsumed(d) = <<>> THEN Refill(d, chunk) ELSE d,
                  out, cap, chunk, env, steps)

ReadLoop(d, out, cap, chunk, env, steps) ==
    IF d.done /\ Unconsumed(d) = <<>> THEN ReadOk(d, env, out, steps)
    ELSE IF steps >= d.limit THEN ReadErr(d, env, Runaway, steps, RS_RUNNING)
    ELSE ReadStep(IF Unconsumed(d) = <<>> THEN Refill(d, chunk) ELSE d,
                  out, cap, chunk, env, steps)

\* DriverRead stepping the engine again after a failure.
DriverReadRetrying(d, cap, chunk, env) ==
    ReadLoop([d EXCEPT !.limit = StepLimit(d)], <<>>, cap, chunk, env, 0)

\* JobDriver::read: a driver that has failed reports the same error again.
DriverRead(d, cap, chunk, env) ==
    IF d.failed # NoError THEN ReadErr(d, env, d.failed, 0, RS_RUNNING)
    ELSE ReadLoop([d EXCEPT !.limit = StepLimit(d)], <<>>, cap, chunk, env, 0)

\* Size of the scratch output of a drain; what is written there is discarded.
DrainCap == 1

\* JobDriver::consume_input: pump with a discarded output until Done.
RECURSIVE consume_input(_, _, _)
DrainNext(r, chunk) ==
    IF ~r.ok \/ r.d.done THEN r ELSE consume_input(r.d, chunk, r.env)

consume_input(d, chunk, env) == DrainNext(DriverRead(d, DrainCap, chunk, env), chunk)

\* ------------------------------------------------------- native resources
\* The world of native resources: the state of each allocation, how often it
\* was released, and the order of the releases; calls lists the engine calls
\* of a Delta constructor after the load, each with whether the phase before
\* it had succeeded.
Resources == {"job", "loadsig", "sumset", "box", "ctx"}

NewWorld ==
    [st |-> [r \in Resources \ {"sumset"} |-> "none"], sumset |-> NullSumset,
     frees |-> [r \in Resources |-> 0], log |-> <<>>, calls |-> <<>>,
     drain |-> [steps |-> 0, err |-> NoError],
     at |-> 0, place |-> [f \in {"base", "_raw"} |-> "inline"],
     opaque |-> [in |-> "none", at |-> 0, of |-> ""],
     target |-> [in |-> "none", at |-> 0, of |-> ""]]

\* Addresses.  The facade is a value that lives at w.at and is relocated
\* when it is moved; what a Box holds lives in its heap allocation, which
\* keeps its address, and what is stored inline lives where the facade is.
AddrOf(w, f) ==
    IF w.place[f] = "heap" THEN [in |-> "heap", at |-> 0, of |-> f]
    ELSE [in |-> "facade", at |-> w.at, of |-> f]

\* Box::new: a heap allocation r holding the value of field f.
BoxNew(w, r, f) == [w EXCEPT !.st[r] = "alive", !.place[f] = "heap"]

\* A move of the facade to another place.
Relocate(w, to) == [w EXCEPT !.at = to]

\* The context is made over &*base, and &*cb_data is handed to the engine.
PointAtBase(w) == [w EXCEPT !.target = AddrOf(w, "base")]

RegisterContext(w) == [w EXCEPT !.opaque = AddrOf(w, "_raw")]

\* Whether the addresses the engine and the context hold are those of the
\* context and of the base source.
AddressesValid(w) ==
    w.opaque = AddrOf(w, "_raw") /\ w.target = AddrOf(w, "base")

Called(w, call, after) == [w EXCEPT !.calls = Append(@, <<call, after>>)]

StateOf(w, r) == IF r = "sumset" THEN w.sumset.st ELSE w.st[r]

Alloc(w, r) ==
    IF r = "sumset" THEN [w EXCEPT !.sumset = [NullSumset EXCEPT !.st = "alive"]]
    ELSE [w EXCEPT !.st[r] = "alive"]

Free(w, r) ==
    LET w1 == [w EXCEPT !.frees[r] = @ + 1, !.log = Append(@, r)]
    IN IF r = "sumset" THEN [w1 EXCEPT !.sumset.st = "freed"]
       ELSE [w1 EXCEPT !.st[r] = "freed"]

\* impl Drop for Job: the job is freed when its owner is destroyed.
JobDrop(w, r) == IF StateOf(w, r) = "alive" THEN Free(w, r) ELSE w

\* impl Drop for Sumset: nothing to do for a null handle.
SumsetDrop(w) == IF w.sumset.st # "null" THEN Free(w, "sumset") ELSE w

\* Drop of a Box: the allocation is freed together with what it holds.
BoxDrop(w, r) == Free(w, r)

\* Drop of one field of a facade.
DropField(w, f) ==
    CASE f = "driver" -> JobDrop(w, "job")
      [] f = "_sumset" -> SumsetDrop(w)
      [] f = "base" -> BoxDrop(w, "box")
      [] f = "_raw" -> BoxDrop(w, "ctx")
      [] OTHER -> w

RECURSIVE DropFields(_, _)
DropFields(w, fs) ==
    IF fs = <<>> THEN w ELSE DropFields(DropField(w, fs[1]), Tail(fs))

\* Delta with its fields declared in the other order.
DeltaFieldsSumsetFirst == <<"_sumset", "driver">>

\* Patch with the base declared before the driver.
PatchFieldsBaseFirst == <<"base", "driver", "_raw">>

\* Fields are dropped in declaration order.
SignatureFields == <<"driver">>

DeltaFields == <<"driver", "_sumset">>

PatchFields == <<"driver", "base", "_raw">>

\* ----------------------------------------------------------- constructors
NullJob == NewJob("null", "null")

\* The engine rejects a signature with no block length.
rs_sig_begin(block_len, strong_len, magic) ==
    IF block_len < 1 THEN NullJob
    ELSE [NewJob("sig", "header") EXCEPT !.magic = magic, !.blockLen = block_len,
                                         !.strongLen = strong_len]

rs_loadsig_begin == NewJob("loadsig", "magic")

\* Indexing fails when the engine cannot allocate the table.
rs_build_hash_table(sumset, memOk) == IF memOk THEN RS_DONE ELSE RS_MEM_ERROR

\* The engine makes no delta job from a signature set without block length.
rs_delta_begin(sumset) ==
    IF sumset.blockLen < 1 THEN NullJob ELSE NewJob("delta", "header")

rs_patch_begin == NewJob("patch", "magic")

CtorOk(w, d) == [ok |-> TRUE, err |-> NoError, w |-> w, drv |-> d]

CtorErr(w, err) == [ok |-> FALSE, err |-> err, w |-> w, drv |-> NoDriver]

\* Signature::with_buf_reader without the test for a null job.
SignatureWithBufReaderUnchecked(input, block_len, strong_len, magic) ==
    CtorOk(Alloc(NewWorld, "job"),
           NewDriver(input, rs_sig_begin(block_len, strong_len, magic)))

\* Signature::with_buf_reader with the format selector ignored.
SignatureWithBufReaderOneFormat(input, block_len, strong_len, magic) ==
    LET job == rs_sig_begin(block_len, strong_len, RS_MD4_SIG_MAGIC)
    IN IF job = NullJob THEN CtorErr(NewWorld, MkError("BadMagic", "", 0))
       ELSE CtorOk(Alloc(NewWorld, "job"), NewDriver(input, job))

\* Signature::with_buf_reader
SignatureWithBufReader(input, block_len, strong_len, magic) ==
    LET job == rs_sig_begin(block_len, strong_len, magic)
    IN IF job = NullJob THEN CtorErr(NewWorld, MkError("BadMagic", "", 0))
       ELSE CtorOk(Alloc(NewWorld, "job"), NewDriver(input, job))

\* Delta::with_buf_reader, after the signature was loaded and indexed: w
\* holds the indexed sumset, and the load-signature job is already dropped.
DeltaBegin(new, w, djob) ==
    IF djob = NullJob THEN CtorErr(SumsetDrop(w), io_err("InvalidData"))
    ELSE CtorOk(Alloc(w, "job"), NewDriver(new, djob))

\* DeltaIndex with the result of rs_build_hash_table ignored.
DeltaIndexUnchecked(new, w, res) ==
    DeltaBegin(new,
               JobDrop(Called([w EXCEPT !.sumset.indexed = (res = RS_DONE)],
                              "rs_delta_begin", res = RS_DONE), "loadsig"),
               rs_delta_begin(w.sumset))

\* Delta::with_buf_reader, after consume_input returned Ok: the raw sumset
\* pointer is wrapped in a Sumset, then indexed.  On an early return the
\* Sumset is dropped before the load-signature driver (reverse declaration).
DeltaIndex(new, w, res) ==
    IF res # RS_DONE
    THEN CtorErr(JobDrop(SumsetDrop(w), "loadsig"), ErrorFrom(res))
    ELSE DeltaBegin(new,
                    JobDrop(Called([w EXCEPT !.sumset.indexed = TRUE],
                                   "rs_delta_begin", res = RS_DONE), "loadsig"),
                    rs_delta_begin(w.sumset))

\* What the drain of the load-signature job took: its engine steps in all,
\* and its error.
DrainDone(w, r) == [w EXCEPT !.drain = [steps |-> r.env.steps, err |-> r.err]]

\* Whether a drain has left its job Done.
Drained(r) == r.ok /\ r.d.done /\ r.d.job.final = RS_DONE

\* DeltaLoaded with the outcome of consume_input ignored.
DeltaLoadedUnchecked(new, w, r, memOk) ==
    DeltaIndex(new, Called([w EXCEPT !.sumset = r.env.sumset],
                           "rs_build_hash_table", Drained(r)),
               rs_build_hash_table(r.env.sumset, memOk))

\* Delta::with_buf_reader, after consume_input: r is its outcome.  When it
\* failed, try! returns at once: the driver of the load-signature job is
\* dropped, and the raw sumset pointer, which nothing owns yet, is not freed.
DeltaLoaded(new, w, r, memOk) ==
    IF ~r.ok
    THEN CtorErr(JobDrop([DrainDone(w, r) EXCEPT !.sumset = r.env.sumset], "loadsig"),
                 r.err)
    ELSE DeltaIndex(new, Called([DrainDone(w, r) EXCEPT !.sumset = r.env.sumset],
                                "rs_build_hash_table", Drained(r)),
                    rs_build_hash_table(r.env.sumset, memOk))

DeltaLoad(new, base_sig, chunk, memOk, env, w) ==
    DeltaLoaded(new, w,
                consume_input(NewDriver(base_sig, rs_loadsig_begin), chunk,
                              [env EXCEPT !.sumset = w.sumset]),
                memOk)

\* Delta::with_buf_reader: rs_loadsig_begin allocates the sumset and the
\* load-signature job.
DeltaWithBufReader(new, base_sig, chunk, memOk, env) ==
    DeltaLoad(new, base_sig, chunk, memOk, env,
              Alloc(Alloc(NewWorld, "sumset"), "loadsig"))

\* Patch::with_buf_reader with the base source stored in the facade itself
\* instead of a Box.
PatchWithBufReaderBaseInline(delta) ==
    CtorOk(Relocate(Alloc(RegisterContext(BoxNew(PointAtBase(Alloc(NewWorld, "box")),
                                                 "ctx", "_raw")),
                          "job"), 1),
           NewDriver(delta, rs_patch_begin))

\* Patch::with_buf_reader: the base is boxed, then the bridge context over
\* the boxed base, then the job is created with the context's address; the
\* Patch is built and returned, which moves it to the caller.
PatchWithBufReader(delta) ==
    CtorOk(Relocate(Alloc(RegisterContext(BoxNew(PointAtBase(BoxNew(NewWorld, "box", "base")),
                                                 "ctx", "_raw")),
                          "job"), 1),
           NewDriver(delta, rs_patch_begin))

\* ------------------------------------------------------------- teardown
\* Drop of a facade: its fields in declaration order.
DropSignature(w) == DropFields(w, SignatureFields)

DropDelta(w) == DropFields(w, DeltaFields)

DropPatch(w) == DropFields(w, PatchFields)

\* Signature::into_inner: the driver is taken apart, which drops the job.
SignatureIntoInner(w) == JobDrop(w, "job")

\* Delta::into_inner: self.driver.into_inner() drops the job; the rest of
\* self (the sumset) is dropped when the function returns.
DeltaIntoInner(w) == SumsetDrop(JobDrop(w, "job"))

\* Patch::into_inner: (*self.base, self.driver.into_inner().into_inner()):
\* the base is moved out of its box first, then the job is dropped; the
\* emptied box and the context are released when the function returns.
PatchMoveBase(w) == [w EXCEPT !.st["box"] = "moved", !.log = Append(@, "base_moved")]

\* Patch::into_inner releasing the bridge context before the job.
PatchIntoInnerContextFirst(w) ==
    BoxDrop(JobDrop(BoxDrop(PatchMoveBase(w), "ctx"), "job"), "box")

PatchIntoInner(w) ==
    BoxDrop(BoxDrop(JobDrop(PatchMoveBase(w), "job"), "box"), "ctx")

\* ------------------------------------------------------------ facade reads
\* impl Read for Signature / Delta / Patch: each delegates to its driver.
\* A read that reports one byte of the several the driver returned.
ReportOne(r) == [r EXCEPT !.out = Take(r.out, 1)]

SignatureReadShortCount(d, cap, chunk, env) == ReportOne(DriverRead(d, cap, chunk, env))

SignatureRead(d, cap, chunk, env) == DriverRead(d, cap, chunk, env)

DeltaRead(d, cap, chunk, env) == DriverRead(d, cap, chunk, env)

\* A read that turns a failure of the driver into a read of 0 bytes.
Swallowed(r) == IF r.ok THEN r ELSE [r EXCEPT !.ok = TRUE, !.err = NoError]

PatchReadSwallowingErrors(d, cap, chunk, env) ==
    Swallowed(DriverRead(d, cap, chunk, env))

PatchRead(d, cap, chunk, env) == DriverRead(d, cap, chunk, env)

\* ------------------------------------------------------------------- state
VARIABLES
    base_data,   \* B: the bytes of the base file
    new_data,    \* N: the bytes of the new file
    block_len,   \* block length asked of the signature
    sig_magic,   \* signature format asked of the signature
    strict,      \* whether the engine reports INPUT_ENDED itself
    stage,       \* "start", "sig", "delta" or "patch": the facade in use
    fac,         \* "none", "live", "failed" (constructor error), "dropped"
                 \* or "unwrapped" (into_inner)
    drv,         \* the facade's JobDriver
    heap,        \* the native resources of the facade
    base,        \* the base source of the patch: data, position, behaviour
    given,       \* the bytes of the source handed to the constructor
    genuine,     \* every source so far was the previous stream, unaltered
    sigOut,      \* bytes pulled from the signature stream so far
    deltaOut,    \* bytes pulled from the delta stream so far
    patchOut,    \* bytes pulled from the patch stream so far
    eofSeen,     \* the last pull returned 0
    ctor,        \* outcome of the last constructor
    last,        \* outcome of the last pull call
    uaf          \* a job has touched memory that was released

vars ==
    <<base_data, new_data, block_len, sig_magic, strict, stage, fac, drv, heap,
      base, given, genuine, sigOut, deltaOut, patchOut, eofSeen, ctor, last, uaf>>

inputs == <<base_data, new_data, block_len, sig_magic, strict>>

\* A facade that was dropped, or taken apart by into_inner.
Gone == {"dropped", "unwrapped"}

NoCall ==
    [op |-> "none", ok |-> TRUE, n |-> 0, err |-> NoError, cap |-> 0,
     res |-> RS_RUNNING, steps |-> 0, cbs |-> <<>>, failedBefore |-> NoError,
     at |-> 0, doneBefore |-> FALSE, stagedBefore |-> 0]

NoCtor == [op |-> "none", ok |-> TRUE, err |-> NoError, memOk |-> TRUE]

NewBase(data, chunk, fail) ==
    [data |-> data, pos |-> 0, chunk |-> chunk, fail |-> fail]

Env(fill) ==
    [sumset |-> heap.sumset, base |-> base, ctx |-> heap.st["ctx"],
     box |-> heap.st["box"], fill |-> fill, strict |-> strict, uaf |-> uaf,
     cbs |-> <<>>, stable |-> AddressesValid(heap), steps |-> 0]

Init ==
    /\ base_data \in SeqsUpTo(Byte, MaxLen)
    /\ new_data \in SeqsUpTo(Byte, MaxLen)
    /\ block_len \in 0..MaxBlockLen
    /\ sig_magic \in {RS_MD4_SIG_MAGIC, RS_BLAKE2_SIG_MAGIC}
    /\ strict \in BOOLEAN
    /\ stage = "start"
    /\ fac = "none"
    /\ drv = NoDriver
    /\ heap = NewWorld
    /\ base = NewBase(<<>>, 1, "none")
    /\ given = <<>>
    /\ genuine = TRUE
    /\ sigOut = <<>>
    /\ deltaOut = <<>>
    /\ patchOut = <<>>
    /\ eofSeen = FALSE
    /\ ctor = NoCtor
    /\ last = NoCall
    /\ uaf = FALSE

\* What a constructor leaves behind.
Constructed(op, c, memOk) ==
    /\ fac' = IF c.ok THEN "live" ELSE "failed"
    /\ drv' = c.drv
    /\ heap' = c.w
    /\ ctor' = [op |-> op, ok |-> c.ok, err |-> c.err, memOk |-> memOk]
    /\ eofSeen' = FALSE
    /\ last' = NoCall

\* What a pull call leaves behind.
Pulled(r, cap) ==
    /\ drv' = r.d
    /\ heap' = [heap EXCEPT !.sumset = r.env.sumset]
    /\ base' = r.env.base
    /\ uaf' = r.env.uaf
    /\ eofSeen' = (r.ok /\ r.out = <<>>)
    /\ last' = [op |-> "read", ok |-> r.ok, n |-> Len(r.out), err |-> r.err,
                cap |-> cap, res |-> r.res, steps |-> r.steps,
                cbs |-> r.env.cbs, failedBefore |-> drv.failed, at |-> heap.at,
                doneBefore |-> drv.done, stagedBefore |-> Len(Unconsumed(drv))]

SigPulled(r, cap) == Pulled(r, cap) /\ sigOut' = sigOut \o r.out

DeltaPulled(r, cap) == Pulled(r, cap) /\ deltaOut' = deltaOut \o r.out

PatchPulled(r, cap) == Pulled(r, cap) /\ patchOut' = patchOut \o r.out

\* ----------------------------------------------------------------- actions
SignatureNew ==
    /\ stage = "start"
    /\ stage' = "sig"
    /\ given' = base_data
    /\ Constructed("Signature",
                   SignatureWithBufReader(base_data, block_len, 0, sig_magic), TRUE)
    /\ UNCHANGED <<inputs, base, genuine, sigOut, deltaOut, patchOut, uaf>>

SigPull(cap, chunk) ==
    /\ stage = "sig" /\ fac = "live"
    /\ SigPulled(SignatureRead(drv, cap, chunk, Env(0)), cap)
    /\ UNCHANGED <<inputs, stage, fac, given, genuine, deltaOut, patchOut, ctor>>

SigDrop ==
    /\ stage = "sig" /\ fac = "live"
    /\ fac' = "dropped"
    /\ drv' = NoDriver
    /\ last' = NoCall
    /\ heap' = DropSignature(heap)
    /\ UNCHANGED <<inputs, stage, base, given, genuine, sigOut, deltaOut,
                   patchOut, eofSeen, ctor, uaf>>

SigIntoInner ==
    /\ stage = "sig" /\ fac = "live"
    /\ fac' = "unwrapped"
    /\ drv' = NoDriver
    /\ last' = NoCall
    /\ heap' = SignatureIntoInner(heap)
    /\ UNCHANGED <<inputs, stage, base, given, genuine, sigOut, deltaOut,
                   patchOut, eofSeen, ctor, uaf>>

\* Signature sources a delta may be built from: the signature stream, a
\* truncation of it, one with a foreign magic, one with block length 0.
SigSources ==
    IF sigOut = <<>> THEN {<<>>}
    ELSE Prefixes(sigOut)
           \cup {<<RS_DELTA_MAGIC>> \o Tail(sigOut), <<Head(sigOut), 0, 0>>}

DeltaNew(src, chunk, memOk) ==
    /\ stage = "sig" /\ fac \in Gone /\ eofSeen
    /\ memOk \/ src = sigOut
    /\ stage' = "delta"
    /\ given' = src
    /\ genuine' = (src = sigOut)
    /\ Constructed("Delta", DeltaWithBufReader(new_data, src, chunk, memOk, Env(0)),
                   memOk)
    /\ UNCHANGED <<inputs, base, sigOut, deltaOut, patchOut, uaf>>

DeltaPull(cap, chunk) ==
    /\ stage = "delta" /\ fac = "live"
    /\ DeltaPulled(DeltaRead(drv, cap, chunk, Env(0)), cap)
    /\ UNCHANGED <<inputs, stage, fac, given, genuine, sigOut, patchOut, ctor>>

DeltaDrop ==
    /\ stage = "delta" /\ fac = "live"
    /\ fac' = "dropped"
    /\ drv' = NoDriver
    /\ last' = NoCall
    /\ heap' = DropDelta(heap)
    /\ UNCHANGED <<inputs, stage, base, given, genuine, sigOut, deltaOut,
                   patchOut, eofSeen, ctor, uaf>>

DeltaIntoInnerAct ==
    /\ stage = "delta" /\ fac = "live"
    /\ fac' = "unwrapped"
    /\ drv' = NoDriver
    /\ last' = NoCall
    /\ heap' = DeltaIntoInner(heap)
    /\ UNCHANGED <<inputs, stage, base, given, genuine, sigOut, deltaOut,
                   patchOut, eofSeen, ctor, uaf>>

\* Delta sources a patch may be built from: the delta stream, a truncation
\* of it, one with a foreign magic, one whose last command is a reserved
\* opcode, or one with a byte after its end command.
DeltaSources ==
    IF deltaOut = <<>> THEN {<<>>}
    ELSE Prefixes(deltaOut)
           \cup {<<RS_MD4_SIG_MAGIC>> \o Tail(deltaOut),
                 Take(deltaOut, Len(deltaOut) - 1) \o <<RS_OP_RESERVED_85>>,
                 deltaOut \o <<RS_OP_END>>}

\* One thing is varied at a time: the patch is built over a delta of the
\* genuine signature, and the base source misbehaves only under the genuine
\* delta.
PatchNew(src, bchunk, bfail) ==
    /\ stage = "delta" /\ fac \in Gone /\ eofSeen
    /\ genuine
    /\ src = deltaOut \/ (bchunk = MaxLen /\ bfail = "none")
    /\ stage' = "patch"
    /\ given' = src
    /\ genuine' = (genuine /\ src = deltaOut)
    /\ base' = NewBase(base_data, bchunk, bfail)
    /\ Constructed("Patch", PatchWithBufReader(src), TRUE)
    /\ UNCHANGED <<inputs, sigOut, deltaOut, patchOut, uaf>>

PatchPull(cap, chunk, fill) ==
    /\ stage = "patch" /\ fac = "live"
    /\ PatchPulled(PatchRead(drv, cap, chunk, Env(fill)), cap)
    /\ UNCHANGED <<inputs, stage, fac, given, genuine, sigOut, deltaOut, ctor>>

\* A move of the Patch value: it is relocated, its boxes are not.
PatchMove ==
    /\ stage = "patch" /\ fac = "live"
    /\ heap' = Relocate(heap, 3 - heap.at)
    /\ UNCHANGED <<inputs, stage, fac, drv, base, given, genuine, sigOut, deltaOut,
                   patchOut, eofSeen, ctor, last, uaf>>

PatchDrop ==
    /\ stage = "patch" /\ fac = "live"
    /\ fac' = "dropped"
    /\ drv' = NoDriver
    /\ last' = NoCall
    /\ heap' = DropPatch(heap)
    /\ UNCHANGED <<inputs, stage, base, given, genuine, sigOut, deltaOut,
                   patchOut, eofSeen, ctor, uaf>>

PatchIntoInnerAct ==
    /\ stage = "patch" /\ fac = "live"
    /\ fac' = "unwrapped"
    /\ drv' = NoDriver
    /\ last' = NoCall
    /\ heap' = PatchIntoInner(heap)
    /\ UNCHANGED <<inputs, stage, base, given, genuine, sigOut, deltaOut,
                   patchOut, eofSeen, ctor, uaf>>

Next ==
    \/ SignatureNew
    \/ \E cap \in 1..MaxDest, chunk \in 1..MaxChunk : SigPull(cap, chunk)
    \/ SigDrop
    \/ SigIntoInner
    \/ \E src \in SigSources, chunk \in 1..MaxChunk, memOk \in BOOLEAN :
          DeltaNew(src, chunk, memOk)
    \/ \E cap \in 1..MaxDest, chunk \in 1..MaxChunk : DeltaPull(cap, chunk)
    \/ DeltaDrop
    \/ DeltaIntoInnerAct
    \/ \E src \in DeltaSources, bchunk \in 1..MaxLen,
          bfail \in {"none", "seek", "read"} : PatchNew(src, bchunk, bfail)
    \/ \E cap \in 1..MaxDest, chunk \in 1..MaxChunk, fill \in Byte :
          PatchPull(cap, chunk, fill)
    \/ PatchMove
    \/ PatchDrop
    \/ PatchIntoInnerAct

Spec == Init /\ [][Next]_vars

\* ------------------------------------------- a consumer that keeps pulling
\* The program with a consumer that pulls each stream until it has ended,
\* and only then lets go of it.
PullingInit == Init /\ sig_magic = RS_BLAKE2_SIG_MAGIC

SigPullAny == \E cap \in 1..MaxDest, chunk \in 1..MaxChunk : SigPull(cap, chunk)

DeltaPullAny == \E cap \in 1..MaxDest, chunk \in 1..MaxChunk : DeltaPull(cap, chunk)

PatchPullAny ==
    \E cap \in 1..MaxDest, chunk \in 1..MaxChunk, fill \in Byte :
        PatchPull(cap, chunk, fill)

PullingNext ==
    \/ SignatureNew
    \/ SigPullAny
    \/ eofSeen /\ SigDrop
    \/ \E src \in SigSources, chunk \in 1..MaxChunk : DeltaNew(src, chunk, TRUE)
    \/ DeltaPullAny
    \/ eofSeen /\ DeltaDrop
    \/ \E src \in DeltaSources, bchunk \in 1..MaxLen,
          bfail \in {"none", "seek", "read"} : PatchNew(src, bchunk, bfail)
    \/ PatchPullAny

\* A stream that has not ended for its consumer: a pull call on it returns
\* bytes, end of stream or an error, each of which changes the state.
PullPossible == fac = "live" /\ ~eofSeen /\ drv.failed = NoError

\* The steps of PullingNext that are pull calls: those that keep the stream.
PullStep == fac = "live" /\ fac' = "live" /\ stage' = stage

\* Weak fairness of the pull calls: a consumer that can pull does.  This is
\* WF_vars(SigPullAny \/ DeltaPullAny \/ PatchPullAny) with its ENABLED
\* written as the state predicate PullPossible.
KeepsPulling == []<>(~PullPossible) \/ []<><<PullStep>>_vars

PullingSpec == PullingInit /\ [][PullingNext]_vars /\ KeepsPulling

\* ------------------------------------------------- the error conversion
\* Error::from applied to any result code of the engine, on its own: the
\* code and the error it was converted to are kept in last.
MaxCode == 110

FromInit ==
    /\ base_data = <<>>
    /\ new_data = <<>>
    /\ block_len = 1
    /\ sig_magic = RS_BLAKE2_SIG_MAGIC
    /\ strict = FALSE
    /\ stage = "start"
    /\ fac = "none"
    /\ drv = NoDriver
    /\ heap = NewWorld
    /\ base = NewBase(<<>>, 1, "none")
    /\ given = <<>>
    /\ genuine = TRUE
    /\ sigOut = <<>>
    /\ deltaOut = <<>>
    /\ patchOut = <<>>
    /\ eofSeen = FALSE
    /\ ctor = NoCtor
    /\ last = NoCall
    /\ uaf = FALSE

Convert(code) ==
    /\ last' = [NoCall EXCEPT !.op = "from", !.ok = FALSE, !.res = code,
                              !.err = ErrorFrom(code)]
    /\ UNCHANGED <<inputs, stage, fac, drv, heap, base, given, genuine, sigOut,
                   deltaOut, patchOut, eofSeen, ctor, uaf>>

FromNext == \E code \in 0..MaxCode : Convert(code)

FromSpec == FromInit /\ [][FromNext]_vars

\* ------------------------------------------------ a stream read to its end
\* Read::read_to_end over a driver, by a consumer whose buffer has cap bytes
\* of room and over a source that delivers at most chunk bytes a read: pull
\* until a call returns 0 or fails.  acc is what has been read so far; the
\* result is all that was read and whether the stream ended without error.
RECURSIVE ReadToEnd(_, _, _, _, _)
ReadToEndNext(r, cap, chunk, acc) ==
    IF ~r.ok THEN [out |-> acc, ok |-> FALSE]
    ELSE IF r.out = <<>> THEN [out |-> acc, ok |-> TRUE]
    ELSE ReadToEnd(r.d, cap, chunk, r.env, acc \o r.out)

ReadToEnd(d, cap, chunk, env, acc) ==
    ReadToEndNext(DriverRead(d, cap, chunk, env), cap, chunk, acc)

\* The job the stream in use was constructed with.
BegunJob ==
    CASE stage = "sig" -> rs_sig_begin(block_len, 0, sig_magic)
      [] stage = "delta" -> rs_delta_begin(heap.sumset)
      [] OTHER -> rs_patch_begin

\* What the job of the stream in use can reach, with the base source as it
\* was handed to the constructor; fill is the previous content of the
\* consumer's buffer.
BegunEnv(fill) ==
    [Env(fill) EXCEPT !.base = NewBase(base.data, base.chunk, base.fail)]

\* The stream in use, constructed over the same source again and read to
\* its end with buffers of cap bytes over reads of chunk bytes.
Reread(cap, chunk, fill) ==
    ReadToEnd(NewDriver(IF stage = "delta" THEN new_data ELSE given, BegunJob),
              cap, chunk, BegunEnv(fill), <<>>)

\* ------------------------------------------------------------------ claims

\* C1 (round trip): when the patch stream built over the delta of new_data
\* against the signature of base_data has been read to end of stream, the
\* bytes read are exactly new_data.
RoundTrip ==
    (stage = "patch" /\ genuine /\ eofSeen) => patchOut = new_data

\* The round trip of a base source whose reads are never short.
RoundTripFullReads ==
    (stage = "patch" /\ genuine /\ eofSeen /\ base.chunk >= Len(base_data))
        => patchOut = new_data

\* C2 (pull contract): a pull call that succeeds returns between 1 and
\* destination.len() bytes, or returns 0 with the job Done; it never returns
\* 0 while the job is not Done.
ReadContract ==
    (last.op = "read" /\ last.ok) =>
        \/ 1 <= last.n /\ last.n <= last.cap
        \/ last.n = 0 /\ drv.done /\ drv.job.final = RS_DONE

\* A pull call that returned bytes after a step that had produced none.
ReadContractWitness ==
    last.op = "read" /\ last.ok /\ last.steps >= 2 /\ last.n >= 1

\* The source given to the patch is the delta stream cut short.
TruncatedDelta == stage = "patch" /\ given # deltaOut /\ given \in Prefixes(deltaOut)

\* C3 (truncated delta): a pull call on the patch stream that ends with the
\* job Blocked, the delta source exhausted and no byte produced fails with
\* an unexpected-end-of-input error; a truncated delta never reads to a
\* successful end of stream, and every failure it causes is that error.
TruncatedDeltaFails ==
    /\ (stage = "patch" /\ last.op = "read" /\ last.res = RS_BLOCKED
          /\ drv.exhausted /\ last.n = 0)
         => (~last.ok /\ last.err = io_err("UnexpectedEof"))
    /\ TruncatedDelta => ~eofSeen
    /\ (TruncatedDelta /\ last.op = "read" /\ ~last.ok)
         => last.err = io_err("UnexpectedEof")

\* A delta cut short whose patch stream delivered bytes and then failed.
TruncatedDeltaWitness ==
    /\ TruncatedDelta /\ last.op = "read" /\ ~last.ok /\ drv.exhausted
    /\ patchOut # <<>>

\* A signature stream is a header of three fields and records of two.
TruncatedMidRecord(sig) == Len(sig) < 3 \/ (Len(sig) - 3) % 2 = 1

BadSigMagic(sig) ==
    sig # <<>> /\ sig[1] \notin {RS_MD4_SIG_MAGIC, RS_BLAKE2_SIG_MAGIC}

\* C4 (truncated signature): a delta built from a signature source that is
\* cut mid-record or has a foreign magic fails to construct: no Delta stream
\* is returned and no delta job is made.
TruncatedSignatureFails ==
    (stage = "delta" /\ (TruncatedMidRecord(given) \/ BadSigMagic(given)))
        => (fac = "failed" /\ ~ctor.ok /\ heap.st["job"] = "none")

\* A signature cut inside a record, after the whole header.
TruncatedSignatureWitness ==
    stage = "delta" /\ Len(given) >= 4 /\ TruncatedMidRecord(given) /\ fac = "failed"

\* C5 (permanent failure): a pull call on a stream that has failed fails
\* with the same error, returns no byte and does not step the engine.
PermanentFailure ==
    (last.op = "read" /\ last.failedBefore # NoError) =>
        /\ ~last.ok
        /\ last.err = last.failedBefore
        /\ last.n = 0
        /\ last.steps = 0
        /\ drv.failed = last.failedBefore

\* A pull call on a stream that had failed with an engine error.
PermanentFailureWitness ==
    last.op = "read" /\ last.failedBefore \in {MkError("BadMagic", "", 0), io_err("Other")}

\* Position of the first release of r in the log, or 0.
FirstRelease(log, r) ==
    IF \E i \in 1..Len(log) : log[i] = r
    THEN CHOOSE i \in 1..Len(log) : log[i] = r /\ \A k \in 1..(i - 1) : log[k] # r
    ELSE 0

\* C6 (delta teardown): the sumset of a Delta is never released while the
\* delta job is alive: it is released only after the job was.
DeltaTeardownOrder ==
    stage = "delta" =>
        /\ ~(heap.sumset.st = "freed" /\ heap.st["job"] = "alive")
        /\ (heap.st["job"] # "none" /\ FirstRelease(heap.log, "sumset") > 0)
             => /\ FirstRelease(heap.log, "job") > 0
                /\ FirstRelease(heap.log, "job") < FirstRelease(heap.log, "sumset")

\* A Delta dropped before it was read to the end.
DeltaTeardownWitness ==
    /\ stage = "delta" /\ fac = "dropped" /\ ~eofSeen
    /\ heap.st["job"] = "freed" /\ heap.sumset.st = "freed"

\* C7 as claimed: a dropped Patch releases the job, then the bridge
\* context, then the boxed base source.
PatchTeardownClaimed ==
    (stage = "patch" /\ fac = "dropped") => heap.log = <<"job", "ctx", "box">>

\* C7 (patch teardown), amended: a dropped Patch releases the job, then the
\* boxed base source, then the bridge context.
PatchTeardownOrder ==
    (stage = "patch" /\ fac = "dropped") => heap.log = <<"job", "box", "ctx">>

\* A Patch dropped before it was read to the end.
PatchTeardownWitness ==
    stage = "patch" /\ fac = "dropped" /\ ~eofSeen /\ patchOut # <<>>

\* C8 (failed construction): after a constructor has failed, every resource
\* it had acquired has been released, exactly once.
CtorFailureReleasesAll ==
    fac = "failed" =>
        \A r \in Resources :
            /\ StateOf(heap, r) \in {"none", "null", "freed"}
            /\ heap.frees[r] = IF StateOf(heap, r) = "freed" THEN 1 ELSE 0

\* C9 (bridge short read): a callback that reports success has filled the
\* whole buffer it was given.
BridgeFillsBuffer ==
    \A i \in DOMAIN last.cbs :
        last.cbs[i].res = RS_DONE => last.cbs[i].n = last.cbs[i].len

\* C10 (bridge failure): a failed seek is not followed by a read, a failed
\* seek or read is reported as RS_IO_ERROR, and the pull call in which the
\* callback failed fails with an IO error and returns no byte.
BridgeFailurePropagates ==
    /\ \A i \in DOMAIN last.cbs :
          /\ ~last.cbs[i].seekOk =>
                (~last.cbs[i].readCalled /\ last.cbs[i].res = RS_IO_ERROR)
          /\ last.cbs[i].res \in {RS_DONE, RS_IO_ERROR}
          /\ last.cbs[i].res = RS_IO_ERROR =>
                (~last.ok /\ last.err = io_err("Other") /\ last.n = 0)
    /\ (last.cbs # <<>> /\ base.fail # "none") => ~last.ok

\* A pull call in which the seek of the base source failed.
BridgeFailureWitness ==
    /\ last.op = "read" /\ last.cbs # <<>> /\ ~Last(last.cbs).seekOk
    /\ patchOut # <<>>

\* The bytes the consumer has received from the stream in use.
StreamOut ==
    CASE stage = "sig" -> sigOut
      [] stage = "delta" -> deltaOut
      [] OTHER -> patchOut

\* The content of the byte source the driver of the stream in use owns.
DriverSource == IF stage = "delta" THEN new_data ELSE given

\* No staged byte is dropped, duplicated or reordered: what the engine has
\* consumed, then the unconsumed staging, then what the source has not yet
\* delivered, is the content of the source.
InputInOrder == drv.eaten \o Unconsumed(drv) \o drv.src = DriverSource

\* C11 as claimed: the bytes returned to the consumer are all the output the
\* engine has produced, in step order, and the input is fed in source order.
OrderingClaimed ==
    fac = "live" => (StreamOut = drv.emitted /\ InputInOrder)

\* C11 (ordering), amended: the bytes returned to the consumer are a prefix
\* of the output the engine has produced, in step order, and all of it as
\* long as no pull call has failed; the input is fed in source order.
Ordering ==
    fac = "live" =>
        /\ StreamOut \in Prefixes(drv.emitted)
        /\ drv.failed = NoError => StreamOut = drv.emitted
        /\ InputInOrder

\* A pull call that took several engine steps and refills, on a stream
\* that has consumed and returned several bytes.
OrderingWitness ==
    /\ fac = "live" /\ last.op = "read" /\ last.ok /\ last.steps >= 2
    /\ Len(StreamOut) >= 2 /\ Len(drv.eaten) >= 2

\* The codes the claim of C12 names.
NamedCodes ==
    {RS_IO_ERROR, RS_MEM_ERROR, RS_INPUT_ENDED, RS_BAD_MAGIC, RS_UNIMPLEMENTED,
     RS_CORRUPT, RS_INTERNAL_ERROR, RS_PARAM_ERROR}

\* What C12 says of the named codes.
NamedCodesMapped ==
    /\ last.res = RS_MEM_ERROR => last.err = MkError("Mem", "", 0)
    /\ last.res = RS_BAD_MAGIC => last.err = MkError("BadMagic", "", 0)
    /\ last.res = RS_UNIMPLEMENTED => last.err = MkError("Unimplemented", "", 0)
    /\ last.res = RS_INTERNAL_ERROR => last.err = MkError("Internal", "", 0)
    /\ last.res = RS_CORRUPT => last.err = io_err("InvalidData")
    /\ last.res = RS_PARAM_ERROR => last.err = io_err("InvalidInput")
    /\ last.res = RS_INPUT_ENDED => last.err = io_err("UnexpectedEof")
    /\ last.res = RS_IO_ERROR => last.err = io_err("Other")

\* C12 as claimed: the eight named codes map as listed, and every other
\* code n maps to Unknown(n).
ErrorMappingClaimed ==
    last.op = "from" =>
        /\ NamedCodesMapped
        /\ last.res \notin NamedCodes => last.err = MkError("Unknown", "", last.res)

\* C12 (error mapping), amended: the eight named codes map as listed,
\* RS_BLOCKED maps to an IO error of kind would-block, every other code n
\* maps to Unknown(n), and Unknown is produced for none of these nine codes.
ErrorMapping ==
    last.op = "from" =>
        /\ NamedCodesMapped
        /\ last.res = RS_BLOCKED => last.err = io_err("WouldBlock")
        /\ last.res \notin NamedCodes \cup {RS_BLOCKED}
             => last.err = MkError("Unknown", "", last.res)
        /\ last.err.tag = "Unknown" => last.res \notin NamedCodes \cup {RS_BLOCKED}

\* A code above every code the engine defines, converted to Unknown.
ErrorMappingWitness ==
    last.op = "from" /\ last.res > RS_PARAM_ERROR /\ last.err.tag = "Unknown"

\* C13 (signature construction): the constructor fails with BadMagic, and
\* returns no stream and makes no JobDriver, exactly when the engine returns
\* a null job for the parameters; otherwise it returns a stream whose driver
\* owns the job.
SignatureConstruction ==
    (stage = "sig" /\ ctor.op = "Signature") =>
        IF rs_sig_begin(block_len, 0, sig_magic) = NullJob
        THEN /\ ~ctor.ok /\ ctor.err = MkError("BadMagic", "", 0)
             /\ fac = "failed" /\ drv = NoDriver /\ heap.st["job"] = "none"
        ELSE /\ ctor.ok /\ ctor.err = NoError
             /\ fac # "failed" /\ heap.st["job"] # "none"
             /\ fac = "live" => (drv.job.kind = "sig" /\ drv.job.magic = sig_magic
                                  /\ drv.job.blockLen = block_len)

\* A signature asked for with parameters the engine rejects.
SignatureConstructionWitness ==
    stage = "sig" /\ fac = "failed" /\ ctor.err = MkError("BadMagic", "", 0)

\* The block records of the signature of data, block by block.
RECURSIVE BlockRecords(_, _)
BlockRecords(data, bl) ==
    IF data = <<>> THEN <<>>
    ELSE <<WeakSum(Take(data, bl)), StrongSum(Take(data, bl))>>
           \o BlockRecords(Drop(data, bl), bl)

\* The signature stream of data as a function of the parameters alone.
SignatureOf(data, bl, strong_len, magic) ==
    <<magic, bl, strong_len>> \o BlockRecords(data, bl)

\* C14 (determinism): the signature stream is determined by the input bytes
\* and the parameters alone: whatever the sizes of the consumer's buffers
\* and of the source's reads, what has been read is a prefix of one and the
\* same stream, and all of it at end of stream, so that two computations
\* over the same input and parameters give the same bytes.
SignatureDeterminism ==
    (stage = "sig" /\ fac # "failed") =>
        /\ sigOut \in Prefixes(SignatureOf(base_data, block_len, 0, sig_magic))
        /\ eofSeen => sigOut = SignatureOf(base_data, block_len, 0, sig_magic)

\* A signature of two blocks read to end of stream.
SignatureDeterminismWitness ==
    stage = "sig" /\ eofSeen /\ last.op = "read" /\ Len(sigOut) >= 7

\* C15 (input staging): the cursor of a driver never exceeds the filled
\* length of its staging, and no refill has overwritten a staged byte the
\* engine had not consumed: the source is read only when the staging is
\* exhausted.
StagingInvariant ==
    /\ 0 <= drv.cursor /\ drv.cursor <= Len(drv.buf)
    /\ drv.clobbered = 0

\* A pull call that returned with part of the staging consumed and part of
\* it left for the next call.
StagingInvariantWitness ==
    /\ fac = "live" /\ last.op = "read"
    /\ 0 < drv.cursor /\ drv.cursor < Len(drv.buf)

\* C16 (delta construction): the phases run in order, each only after the
\* one before it succeeded: rs_build_hash_table is called only after the
\* load-signature job was drained to Done, rs_delta_begin only after the
\* indexing returned RS_DONE, and a Delta stream is returned only with a
\* delta job that is not null.  A failed indexing returns the mapped error
\* of the engine, a null delta job an invalid-data error.
DeltaPhases ==
    (stage = "delta" /\ ctor.op = "Delta") =>
        /\ heap.calls \in Prefixes(<<<<"rs_build_hash_table", TRUE>>,
                                     <<"rs_delta_begin", TRUE>>>>)
        /\ ctor.ok => /\ Len(heap.calls) = 2
                      /\ heap.sumset.indexed
                      /\ heap.st["job"] # "none"
                      /\ fac = "live" => (drv.job # NullJob /\ drv.job.kind = "delta")
        /\ (~ctor.ok /\ Len(heap.calls) = 1)
             => /\ rs_build_hash_table(heap.sumset, ctor.memOk) # RS_DONE
                /\ ctor.err = ErrorFrom(rs_build_hash_table(heap.sumset, ctor.memOk))
                /\ heap.st["job"] = "none"
        /\ (~ctor.ok /\ Len(heap.calls) = 2)
             => /\ rs_delta_begin(heap.sumset) = NullJob
                /\ ctor.err = io_err("InvalidData")
                /\ heap.st["job"] = "none"
        /\ ~ctor.ok => fac = "failed"

\* A Delta whose signature loaded and indexed, and whose delta job was null.
DeltaPhasesWitness ==
    /\ stage = "delta" /\ ~ctor.ok /\ Len(heap.calls) = 2
    /\ ctor.err = io_err("InvalidData")

\* A Delta whose indexing failed.
DeltaIndexFailedWitness ==
    /\ stage = "delta" /\ ~ctor.ok /\ Len(heap.calls) = 1
    /\ ctor.err = MkError("Mem", "", 0)

\* C17 (bridge address stability): while the patch job is alive, the address
\* registered with the engine is the address of the bridge context and the
\* address the context holds is the address of the base source, both in the
\* heap, wherever the Patch has been moved to.
BridgeAddressStable ==
    (stage = "patch" /\ heap.st["job"] = "alive") =>
        /\ heap.opaque = AddrOf(heap, "_raw") /\ heap.opaque.in = "heap"
        /\ heap.target = AddrOf(heap, "base") /\ heap.target.in = "heap"
        /\ ~uaf

\* A pull call that invoked the bridge after the Patch was moved again.
BridgeAddressStableWitness ==
    /\ stage = "patch" /\ heap.st["job"] = "alive"
    /\ last.op = "read" /\ last.cbs # <<>> /\ last.at = 2

\* Every pull call and every drain so far has returned within its steps.
PullsReturn ==
    /\ last.err # Runaway /\ drv.failed # Runaway /\ ctor.err # Runaway
    /\ heap.drain.err # Runaway
    /\ last.op = "read" => last.steps <= Len(DriverSource) + 2
    /\ stage = "delta" => heap.drain.steps <= Len(given) + 2

\* The stream in use has ended for the consumer: end of stream or an error
\* was returned, or the stream is no longer there to pull from.
StreamEnded == fac # "live" \/ eofSeen \/ drv.failed # NoError

\* C18 (termination): every pull call and every drain returns after finitely
\* many engine steps (at most one for each byte the source has yet to yield,
\* and two), and a consumer that keeps pulling a stream eventually receives
\* end of stream or an error.
Termination == []PullsReturn /\ (fac = "live" ~> StreamEnded)

\* A pull call that took an engine step for every byte of its source, and
\* a stream read to its end after that.
TerminationWitness ==
    /\ fac = "live" /\ eofSeen /\ Len(DriverSource) >= 2 /\ Len(StreamOut) >= 2
    /\ drv.exhausted

\* C19 as claimed: a pull call on a stream whose job has reported Done takes
\* no engine step and returns 0.
StickyEndClaimed ==
    (last.op = "read" /\ last.doneBefore) =>
        (last.ok /\ last.n = 0 /\ last.steps = 0)

\* C19 (sticky end of stream), amended: a pull call on a stream whose job
\* has reported Done returns 0 and leaves the staging and the source as
\* they were; it takes no engine step when the staging is empty, and one,
\* which consumes and produces nothing, when bytes are staged.
StickyEnd ==
    (last.op = "read" /\ last.doneBefore) =>
        /\ last.ok /\ last.n = 0 /\ eofSeen
        /\ drv.done /\ drv.job.final = RS_DONE
        /\ Len(Unconsumed(drv)) = last.stagedBefore
        /\ last.steps = IF last.stagedBefore = 0 THEN 0 ELSE 1

\* A pull call after Done with a byte of trailing data staged.
StickyEndWitness ==
    /\ last.op = "read" /\ last.doneBefore /\ last.stagedBefore > 0
    /\ last.n = 0 /\ patchOut = new_data

\* A pull call after Done with nothing staged and trailing data unread.
StickyEndUnreadWitness ==
    /\ last.op = "read" /\ last.doneBefore /\ last.stagedBefore = 0
    /\ drv.src # <<>>

\* The bridge callback has run only inside pull calls on the Patch, and
\* never on a context or a base source that was released, moved or
\* relocated.
BridgeOnlyInPull ==
    /\ last.cbs # <<>> => (stage = "patch" /\ last.op = "read")
    /\ ~uaf

\* What the callback reaches was touched (released, or moved out of its box)
\* only after the job was released.
JobReleasedFirst(log) ==
    \A i \in DOMAIN log :
        log[i] \in {"base_moved", "box", "ctx"} => \E k \in 1..(i - 1) : log[k] = "job"

\* C20 as claimed: the callback runs only inside a pull call on its Patch,
\* and as long as the patch job is alive the bridge context and the boxed
\* base source are live and un-moved, into_inner included.
BridgeLiveClaimed ==
    /\ BridgeOnlyInPull
    /\ stage = "patch" =>
          /\ JobReleasedFirst(heap.log)
          /\ heap.st["job"] = "alive"
                => (heap.st["ctx"] = "alive" /\ heap.st["box"] = "alive")

\* C20 (bridge liveness), amended: the callback runs only inside a pull call
\* on its Patch; in every state in which a pull call can be made the job,
\* the bridge context and the boxed base source are live, un-moved and at
\* the addresses registered; drop releases the job first, and into_inner
\* moves the base source out of its box and then at once releases the job,
\* before the box and the context.
BridgeLive ==
    /\ BridgeOnlyInPull
    /\ stage = "patch" =>
          /\ heap.st["job"] = "alive"
                => (heap.st["ctx"] = "alive" /\ heap.st["box"] = "alive"
                    /\ AddressesValid(heap))
          /\ fac = "live" => (heap.st["job"] = "alive" /\ heap.log = <<>>)
          /\ fac = "dropped" => JobReleasedFirst(heap.log)
          /\ fac = "unwrapped"
                => heap.log = <<"base_moved", "job", "box", "ctx">>

\* A Patch taken apart by into_inner after its bridge had been called.
BridgeLiveWitness ==
    /\ stage = "patch" /\ fac = "unwrapped" /\ patchOut # <<>>
    /\ Len(heap.log) = 4 /\ heap.log[1] = "base_moved"

\* How the stream in use has ended for its consumer: the bytes received and
\* whether the end was end of stream (TRUE) or an error (FALSE).
Outcome == [out |-> StreamOut, ok |-> drv.failed = NoError]

\* The stream in use was pulled until a call returned 0 or failed.
ReadOut == fac = "live" /\ last.op = "read" /\ (eofSeen \/ drv.failed # NoError)

\* Two byte sequences of which one begins with the other.
Comparable(s, t) == s \in Prefixes(t) \/ t \in Prefixes(s)

\* C21 (chunking independence): a stream pulled to its end gives the same
\* bytes and the same kind of end, success or error, as the same stream
\* read to its end with any one size of destination buffer over any one size
\* of source read, whatever the buffers held before.
ChunkingIndependence ==
    ReadOut =>
        \A cap \in 1..MaxDest, chunk \in 1..MaxChunk :
            \E fill \in Byte : Reread(cap, chunk, fill) = Outcome

\* Chunking independence of the streams that end without error.
ChunkingIndependenceOnSuccess ==
    (ReadOut /\ eofSeen) =>
        \A cap \in 1..MaxDest, chunk \in 1..MaxChunk :
            \E fill \in Byte : Reread(cap, chunk, fill) = Outcome

\* What holds of every stream whose base source never reads short: the kind
\* of end is the same for every buffer and read size, the bytes are the same
\* when the stream ends without error, and before an error they are a
\* beginning of one and the same stream.
ChunkingIndependenceFullReads ==
    (ReadOut /\ (stage = "patch" => base.chunk >= Len(base.data))) =>
        \A cap \in 1..MaxDest, chunk \in 1..MaxChunk, fill \in Byte :
            /\ Reread(cap, chunk, fill).ok = Outcome.ok
            /\ Outcome.ok => Reread(cap, chunk, fill).out = Outcome.out
            /\ Comparable(Reread(cap, chunk, fill).out, Outcome.out)

\* A patch over a base source that reads short, read to end of stream.
ChunkingShortBaseWitness ==
    /\ ReadOut /\ eofSeen /\ stage = "patch" /\ genuine
    /\ base.chunk < Len(base.data) /\ Len(patchOut) >= 2

====
